---- MODULE Spec2Model ----
(***************************************************************************)
(* Medify: retrying API fetch helper, search state controller and the      *)
(* local booking store of src/App.js.                                      *)
(*                                                                         *)
(* Specifications                                                          *)
(*   SpecRetry  one call of fetchWithRetry with an arbitrary retry budget, *)
(*              observed with a clock and a log of its attempts            *)
(*   Spec       the App component: the three fetch stages, the state and   *)
(*              city selection and the search                              *)
(*   SpecStore  getBookings / saveBookings / handleBook /                  *)
(*              handleCancelBooking over the localStorage slot             *)
(*   SpecApp    the whole App: search, booking modal, booking list and     *)
(*              navigation together, for one state and one city            *)
(*   SpecRoute  the route, window.history and the popstate listener        *)
(*   SpecCancel handleCancelBooking on every short list and every index    *)
(*   SpecLive   the search controller under fairness of the network and    *)
(*              of the timers                                              *)
(*   SpecModal  the booking modal at several times of day and time zones   *)
(*                                                                         *)
(* Record constructors list their fields in the order in which the field   *)
(* names first occur in this module, which is the order TLC keeps them in. *)
(***************************************************************************)
EXTENDS Integers, Sequences, FiniteSets, Bags, TLC

VARIABLES
    calls,          \* bag of the fetchWithRetry invocations in flight (or, in SpecRetry, finished)
    clock,          \* virtual time in ms (observed in SpecRetry only)
    netlog,         \* the attempts of the observed call: <<[i, start, end, resp]>>
    lastCatch,      \* the stage whose catch block ran in the latest step, or "none"
    states,         \* App state `states`
    cities,         \* App state `cities`
    selectedState,  \* App state `selectedState`
    selectedCity,   \* App state `selectedCity`
    searchResults,  \* App state `searchResults`
    isLoading,      \* App state `isLoading` = [states, cities, hospitals]
    route,          \* App state `route`
    bookings,       \* App state `bookings` (a JS value)
    storage,        \* localStorage slot 'bookings': Absent or a text (sequence of tokens)
    lastSave,       \* outcome of the latest saveBookings: "none", "ok", "failed"
    mounted,        \* the App component is mounted (its mount effects have run)
    bookingHospital, \* App state `bookingHospital`: << >> (null) or <<hospital>>
    modal,          \* state of the mounted BookingModal: dates, selectedDate, selectedTimeSlot
    lastOp,         \* the latest booking operation: what was asked, at which index
    history,        \* window.history of this document: [entries (paths), at]
    mobileMenuOpen  \* App state `mobileMenuOpen`

vars == <<calls, clock, netlog, lastCatch, states, cities, selectedState, selectedCity,
          searchResults, isLoading, route, bookings, storage, lastSave, mounted,
          bookingHospital, modal, lastOp, history, mobileMenuOpen>>

searchVars == <<states, cities, selectedState, selectedCity, searchResults, isLoading, route, mounted>>
modalVars == <<bookingHospital, modal>>
navVars == <<history, mobileMenuOpen>>
appVars == <<searchVars, modalVars, navVars>>
storeVars == <<bookings, storage, lastSave, lastOp>>
obsVars == <<clock, netlog>>

(***************************************************************************)
(* Bounds                                                                  *)
(***************************************************************************)
MaxRetries == 3         \* largest retry budget tried in SpecRetry
MaxInFlight == 2        \* fetchWithRetry invocations in flight at once in Spec
MaxBookings == 2        \* length of the booking list in SpecStore
MaxHistory == 3         \* entries of window.history

(***************************************************************************)
(* Program constants                                                       *)
(***************************************************************************)
DefaultRetries == 3     \* retries = 3
SecondMs == 1000        \* Math.pow(2, i) * 1000

null == "<null>"            \* JS null (useState(null))
undefined == "<undefined>"  \* a missing (undefined) string-valued field
NoError == "<none>"

Min(a, b) == IF a < b THEN a ELSE b
Max(a, b) == IF a > b THEN a ELSE b

RECURSIVE Pow2(_)
Pow2(n) == IF n = 0 THEN 1 ELSE 2 * Pow2(n - 1)

(***************************************************************************)
(* fetchWithRetry (App.js 8-21)                                            *)
(*                                                                         *)
(* A network response is [rejected, status, json]: fetch() rejects         *)
(* (transport failure), or resolves with an HTTP status and a body that    *)
(* response.json() parses (parses = TRUE, json = the parsed value) or      *)
(* rejects.  A value that may be undefined is a sequence of length <= 1.   *)
(***************************************************************************)
Undefined == << >>
Some(v) == <<v>>

TransportFailure == [json |-> << >>, parses |-> FALSE, rejected |-> TRUE, status |-> 0]
HttpResponse(status, parses, json) ==
    [json |-> json, parses |-> parses, rejected |-> FALSE, status |-> status]

\* response.ok
ResponseOk(resp) == resp.status >= 200 /\ resp.status <= 299

\* new Error(`HTTP error! status: ${response.status}`)
HttpError(status) == IF status = 404 THEN "HTTP error! status: 404"
                     ELSE IF status = 500 THEN "HTTP error! status: 500"
                     ELSE "HTTP error! status: other"

\* The try block of one loop iteration: what it returns or throws.
TryAttempt(resp) ==
    IF resp.rejected
      THEN [error |-> "TypeError: Failed to fetch", threw |-> TRUE, value |-> Undefined]
    ELSE IF ~ResponseOk(resp)
      THEN [error |-> HttpError(resp.status), threw |-> TRUE, value |-> Undefined]
    ELSE IF ~resp.parses
      THEN [error |-> "SyntaxError", threw |-> TRUE, value |-> Undefined]
    ELSE [error |-> NoError, threw |-> FALSE, value |-> Some(resp.json)]

\* variant: linear instead of exponential backoff
RetryDelayLinear(i) == 2 * i * SecondMs

\* const delay = Math.pow(2, i) * 1000
RetryDelay(i) == Pow2(i) * SecondMs

\* variant: off by one in the budget test
IsLastAttemptOffByOne(i, retries) == i = retries

\* i === retries - 1
IsLastAttempt(i, retries) == i = retries - 1

\* variant: the loop body runs once before the budget is tested (do ... while)
LoopHeadDoWhile(c, i) ==
    IF i < c.retries \/ i = 0
      THEN [c EXCEPT !.i = i, !.phase = "fetching", !.timer = 0]
      ELSE [c EXCEPT !.i = i, !.phase = "returned", !.timer = 0, !.result = Undefined]

\* for (let i = 0; i < retries; i++): enter the body or fall out of the loop
LoopHead(c, i) ==
    IF i < c.retries
      THEN [c EXCEPT !.i = i, !.phase = "fetching", !.timer = 0]
      ELSE [c EXCEPT !.i = i, !.phase = "returned", !.timer = 0, !.result = Undefined]

\* fetchWithRetry(url, options = {}, retries = 3) up to its first await
fetchWithRetry(stage, url, retries) ==
    LoopHead([error |-> NoError, i |-> 0, retries |-> retries, phase |-> "fetching",
              timer |-> 0, result |-> Undefined,
              stage |-> stage, url |-> url], 0)

\* variant: the parsed body is not returned, the loop goes on
OnResponseNoReturn(c, resp) ==
    LET o == TryAttempt(resp) IN
    IF ~o.threw
      THEN LoopHead([c EXCEPT !.result = o.value], c.i + 1)
    ELSE IF IsLastAttempt(c.i, c.retries)
      THEN [c EXCEPT !.phase = "thrown", !.error = o.error]
    ELSE [c EXCEPT !.phase = "waiting", !.timer = RetryDelay(c.i)]

\* variant: a client error (4xx) is rethrown at once instead of retried
OnResponseNoRetry4xx(c, resp) ==
    LET o == TryAttempt(resp) IN
    IF ~o.threw
      THEN [c EXCEPT !.phase = "returned", !.result = o.value]
    ELSE IF IsLastAttempt(c.i, c.retries) \/ (~resp.rejected /\ resp.status \in 400..499)
      THEN [c EXCEPT !.phase = "thrown", !.error = o.error]
    ELSE [c EXCEPT !.phase = "waiting", !.timer = RetryDelay(c.i)]

\* The awaited fetch settles with resp: the rest of the try block and the catch block.
OnResponse(c, resp) ==
    LET o == TryAttempt(resp) IN
    IF ~o.threw
      THEN [c EXCEPT !.phase = "returned", !.result = o.value]
    ELSE IF IsLastAttempt(c.i, c.retries)
      THEN [c EXCEPT !.phase = "thrown", !.error = o.error]
    ELSE [c EXCEPT !.phase = "waiting", !.timer = RetryDelay(c.i)]

\* variant: after the delay the loop starts over with i = 0
OnTimerStartsOver(c) == LoopHead(c, 0)

\* setTimeout(resolve, delay) fires: the loop continues with i++
OnTimer(c) == LoopHead(c, c.i + 1)

\* The invocations in flight form a bag: promises pending together, in no order.
NoCalls == EmptyBag
One(c) == SetToBag({c})

\* One second passes for one pending setTimeout.
Ticked(c) ==
    IF c.phase = "waiting" THEN [c EXCEPT !.timer = Max(c.timer - SecondMs, 0)] ELSE c

RECURSIVE Copies(_, _)
Copies(S, cs) ==
    IF S = {} THEN 0
    ELSE LET c == CHOOSE x \in S : TRUE IN CopiesIn(c, cs) + Copies(S \ {c}, cs)

\* One second passes for every pending setTimeout.
TimersAfterTick(cs) ==
    [d \in { Ticked(c) : c \in BagToSet(cs) } |->
        Copies({ c \in BagToSet(cs) : Ticked(c) = d }, cs)]

TimerPending(cs) == \E c \in BagToSet(cs) : c.phase = "waiting" /\ c.timer > 0


(***************************************************************************)
(* The remote API (API_BASE_URL): what the environment may answer.         *)
(***************************************************************************)
StatesUrl == [city |-> "", path |-> "/states", state |-> ""]
CitiesUrl(s) == [city |-> "", path |-> "/cities", state |-> s]
DataUrl(s, c) == [city |-> c, path |-> "/data", state |-> s]

\* GET /states: objects with a `state` field, in server order
StatesBodies ==
    { <<[state |-> "Texas"], [state |-> "Alabama"]>>,
      <<[state |-> "Texas"], [state |-> ""], [state |-> "Alabama"]>> }

\* GET /cities/<state>: strings, in server order
CitiesBodies(s) ==
    IF s = "Alabama" THEN { <<"Mobile", "Auburn">> }
    ELSE IF s = "Texas" THEN { <<"Dallas">> }
    ELSE { << >> }

HospitalFields ==
    {"Hospital Name", "City", "State", "Hospital Type", "Hospital overall rating"}

\* One record of GET /data; a field the server leaves out reads as undefined.
ApiHospital(name, c, s, type, rating) ==
    [f \in HospitalFields \cup {"ZIP Code"} |->
        CASE f = "Hospital Name" -> name
          [] f = "City" -> c
          [] f = "State" -> s
          [] f = "Hospital Type" -> type
          [] f = "Hospital overall rating" -> rating
          [] OTHER -> "35957"]

\* GET /data?state=<s>&city=<c>
DataBodies(s, c) ==
    { <<ApiHospital("Mercy", c, s, "Acute Care", "4"),
        ApiHospital(undefined, c, s, "Childrens", "5"),
        ApiHospital("Mercy", c, s, undefined, undefined)>>,
      <<ApiHospital(undefined, c, s, "Acute Care", "3"),
        ApiHospital("Mercy", c, s, undefined, undefined),
        ApiHospital("", c, s, "Childrens", "5")>>,
      <<ApiHospital(undefined, c, s, "Acute Care", "3")>> }

Bodies(url) ==
    IF url.path = "/states" THEN StatesBodies
    ELSE IF url.path = "/cities" THEN CitiesBodies(url.state)
    ELSE DataBodies(url.state, url.city)

FailureResponses ==
    { TransportFailure,
      HttpResponse(404, FALSE, << >>),
      HttpResponse(500, FALSE, << >>),
      HttpResponse(200, FALSE, << >>) }

Responses(url) == FailureResponses \cup { HttpResponse(200, TRUE, b) : b \in Bodies(url) }

(***************************************************************************)
(* JS values held by the booking list, and JSON text.                      *)
(*                                                                         *)
(* A JS value is [a, s, t]: t the type tag, s the string or numeral, a the *)
(* elements of an array or the members of an object (in insertion order),  *)
(* a member being [a |-> <<value>>, s |-> key, t |-> "mem"].  A JSON text  *)
(* is a sequence of tokens [v, k]: punctuation "p", string literal "s",    *)
(* number literal "n", word literal "w" (null), anything else "x".         *)
(***************************************************************************)
JNull == [a |-> << >>, s |-> "", t |-> "null"]
JStr(x) == [a |-> << >>, s |-> x, t |-> "str"]
JNum(x) == [a |-> << >>, s |-> x, t |-> "num"]
JDate(iso) == [a |-> << >>, s |-> iso, t |-> "date"]
JArr(elems) == [a |-> elems, s |-> "", t |-> "arr"]
JObj(members) == [a |-> members, s |-> "", t |-> "obj"]
Mem(key, value) == [a |-> <<value>>, s |-> key, t |-> "mem"]

P(x) == [v |-> x, k |-> "p"]
StrTok(x) == [v |-> x, k |-> "s"]
NumTok(x) == [v |-> x, k |-> "n"]
WordTok(x) == [v |-> x, k |-> "w"]

RECURSIVE Flatten(_)
Flatten(qs) == IF qs = << >> THEN << >> ELSE Head(qs) \o Flatten(Tail(qs))

\* the texts of parts, separated by commas
Joined(parts) ==
    Flatten([n \in DOMAIN parts |-> IF n = 1 THEN parts[n] ELSE <<P(",")>> \o parts[n]])

\* JSON.stringify(value); a Date serializes through toJSON to its ISO string
RECURSIVE JSONstringify(_)
JSONstringify(v) ==
    CASE v.t = "null" -> <<WordTok("null")>>
      [] v.t = "str" -> <<StrTok(v.s)>>
      [] v.t = "num" -> <<NumTok(v.s)>>
      [] v.t = "date" -> <<StrTok(v.s)>>
      [] v.t = "arr" ->
            <<P("[")>> \o Joined([n \in DOMAIN v.a |-> JSONstringify(v.a[n])]) \o <<P("]")>>
      [] v.t = "obj" ->
            <<P("{")>>
            \o Joined([n \in DOMAIN v.a |->
                         <<StrTok(v.a[n].s), P(":")>> \o JSONstringify(v.a[n].a[1])])
            \o <<P("}")>>

ParseFail == [v |-> JNull, ok |-> FALSE, pos |-> 0]
ParseOk(v, pos) == [v |-> v, ok |-> TRUE, pos |-> pos]
TokAt(txt, p) == IF p \in DOMAIN txt THEN txt[p] ELSE [v |-> "", k |-> "eof"]

\* obj[key] = value while parsing: a repeated key keeps its place and takes the new value
PutMember(members, key, value) ==
    IF \E n \in DOMAIN members : members[n].s = key
      THEN [n \in DOMAIN members |-> IF members[n].s = key THEN Mem(key, value) ELSE members[n]]
      ELSE Append(members, Mem(key, value))

RECURSIVE ParseValue(_, _), ParseElements(_, _, _), ParseMembers(_, _, _)
\* a JSON value starting at token p
ParseValue(txt, p) ==
    LET tok == TokAt(txt, p) IN
    CASE tok.k = "s" -> ParseOk(JStr(tok.v), p + 1)
      [] tok.k = "n" -> ParseOk(JNum(tok.v), p + 1)
      [] tok = WordTok("null") -> ParseOk(JNull, p + 1)
      [] tok = P("[") ->
            IF TokAt(txt, p + 1) = P("]") THEN ParseOk(JArr(<< >>), p + 2)
            ELSE ParseElements(txt, p + 1, << >>)
      [] tok = P("{") ->
            IF TokAt(txt, p + 1) = P("}") THEN ParseOk(JObj(<< >>), p + 2)
            ELSE ParseMembers(txt, p + 1, << >>)
      [] OTHER -> ParseFail

\* the elements of an array from token p on, acc the elements read so far
ParseElements(txt, p, acc) ==
    LET r == ParseValue(txt, p) IN
    IF ~r.ok THEN ParseFail
    ELSE IF TokAt(txt, r.pos) = P(",") THEN ParseElements(txt, r.pos + 1, Append(acc, r.v))
    ELSE IF TokAt(txt, r.pos) = P("]") THEN ParseOk(JArr(Append(acc, r.v)), r.pos + 1)
    ELSE ParseFail

\* the members of an object from token p on, acc the members read so far
ParseMembers(txt, p, acc) ==
    IF TokAt(txt, p).k # "s" \/ TokAt(txt, p + 1) # P(":") THEN ParseFail
    ELSE LET r == ParseValue(txt, p + 2)
             key == TokAt(txt, p).v
         IN
         IF ~r.ok THEN ParseFail
         ELSE IF TokAt(txt, r.pos) = P(",")
           THEN ParseMembers(txt, r.pos + 1, PutMember(acc, key, r.v))
         ELSE IF TokAt(txt, r.pos) = P("}")
           THEN ParseOk(JObj(PutMember(acc, key, r.v)), r.pos + 1)
         ELSE ParseFail

\* JSON.parse(text): [ok, v]; ok = FALSE stands for the SyntaxError it throws
JSONparse(txt) ==
    LET r == ParseValue(txt, 1) IN
    IF r.ok /\ r.pos = Len(txt) + 1 THEN r ELSE ParseFail

(***************************************************************************)
(* getBookings / saveBookings (App.js 23-39) over the localStorage slot    *)
(* 'bookings' = [present, text, readable]; getItem throws on a slot that   *)
(* is not readable (storage access denied).                                *)
(***************************************************************************)
AbsentSlot == [present |-> FALSE, text |-> << >>, readable |-> TRUE]
SlotWith(txt) == [present |-> TRUE, text |-> txt, readable |-> TRUE]
UnreadableSlot == [present |-> TRUE, text |-> << >>, readable |-> FALSE]

\* variant: reads a key that is never written
getBookingsOtherKey(slot) == JArr(<< >>)

\* getBookings(): stored ? JSON.parse(stored) : [], with [] when parsing throws
getBookings(slot) ==
    IF ~slot.readable THEN JArr(<< >>)
    ELSE IF ~slot.present \/ slot.text = << >> THEN JArr(<< >>)
    ELSE IF JSONparse(slot.text).ok THEN JSONparse(slot.text).v
    ELSE JArr(<< >>)

\* variant: the slot is emptied before it is written
saveBookingsClearsFirst(slot, value, written) ==
    IF written THEN SlotWith(JSONstringify(value)) ELSE AbsentSlot

\* saveBookings(bookings): the slot afterwards; written = FALSE when setItem throws
saveBookings(slot, value, written) ==
    IF written THEN SlotWith(JSONstringify(value)) ELSE slot

(***************************************************************************)
(* Initial values of the App component's state (App.js 499-515) and of     *)
(* the observation variables.                                              *)
(***************************************************************************)
NoLoading == [states |-> FALSE, cities |-> FALSE, hospitals |-> FALSE]

\* useState(null) of bookingHospital; no BookingModal is mounted
NoHospital == << >>
NoModal == [today |-> 0, tz |-> 0, selectedDate |-> 0, selectedTimeSlot |-> null]

\* no booking operation yet
NoOp == [op |-> "none", index |-> 0, undo |-> << >>]

\* window.location.pathname: the path of the current history entry
pathname(h) == h.entries[h.at]

\* window.location.pathname === '/my-bookings' ? 'MyBookings' : 'Home'
RouteOf(path) == IF path = "/my-bookings" THEN "MyBookings" ELSE "Home"

\* the App constructed in a document loaded at path
AppInitAt(path) ==
    /\ states = << >>
    /\ cities = << >>
    /\ selectedState = null
    /\ selectedCity = null
    /\ searchResults = << >>
    /\ isLoading = NoLoading
    /\ history = [entries |-> <<path>>, at |-> 1]
    /\ route = RouteOf(path)
    /\ mobileMenuOpen = FALSE
    /\ mounted = FALSE
    /\ bookingHospital = NoHospital
    /\ modal = NoModal

AppInit == AppInitAt("/")

\* no catch block of a stage runs in this step
NoCatch == lastCatch' = "none"

ObsInit == clock = 0 /\ netlog = << >> /\ lastCatch = "none"

(***************************************************************************)
(* SpecRetry: one call fetchWithRetry(url, {}, retries) observed.          *)
(***************************************************************************)
NoResponse == [json |-> << >>, parses |-> FALSE, rejected |-> FALSE, status |-> 0]
FetchEvent(i) == [resp |-> NoResponse, i |-> i, at |-> clock, ev |-> "fetch"]
SettleEvent(i, resp) == [resp |-> resp, i |-> i, at |-> clock, ev |-> "settle"]

InitRetry ==
    /\ calls = NoCalls
    /\ ObsInit
    /\ AppInit
    /\ storage = AbsentSlot
    /\ bookings = getBookings(storage)
    /\ lastSave = "none"
    /\ lastOp = NoOp

\* the caller invokes fetchWithRetry with budget r
RetryCall(r) ==
    /\ calls = NoCalls
    /\ LET c == fetchWithRetry("none", StatesUrl, r) IN
        /\ calls' = One(c)
        /\ netlog' = IF c.phase = "fetching" THEN <<FetchEvent(0)>> ELSE << >>
    /\ UNCHANGED <<clock, appVars, storeVars>>
    /\ NoCatch

\* the pending fetch() of the call settles with resp
RetryRespond(resp) ==
    /\ \E c \in BagToSet(calls) :
          /\ c.phase = "fetching"
          /\ calls' = One(OnResponse(c, resp))
          /\ netlog' = Append(netlog, SettleEvent(c.i, resp))
    /\ UNCHANGED <<clock, appVars, storeVars>>
    /\ NoCatch

\* the backoff timer of the call fires
RetryTimer ==
    /\ \E w \in BagToSet(calls) :
          /\ w.phase = "waiting"
          /\ w.timer = 0
          /\ LET c == OnTimer(w) IN
              /\ calls' = One(c)
              /\ netlog' = IF c.phase = "fetching" THEN Append(netlog, FetchEvent(c.i)) ELSE netlog
    /\ UNCHANGED <<clock, appVars, storeVars>>
    /\ NoCatch

\* one second passes
RetryTick ==
    /\ TimerPending(calls)
    /\ calls' = TimersAfterTick(calls)
    /\ clock' = clock + SecondMs
    /\ UNCHANGED <<netlog, appVars, storeVars>>
    /\ NoCatch

NextRetry ==
    \/ \E r \in 0..MaxRetries : RetryCall(r)
    \/ \E resp \in Responses(StatesUrl) : RetryRespond(resp)
    \/ RetryTimer
    \/ RetryTick

SpecRetry == InitRetry /\ [][NextRetry]_vars

(***************************************************************************)
(* Properties of fetchWithRetry, over SpecRetry.                           *)
(***************************************************************************)
Called == BagCardinality(calls) = 1
TheCall == CHOOSE c \in BagToSet(calls) : TRUE
TheCallAfter == CHOOSE c \in BagToSet(calls') : TRUE
FetchIdx == { p \in DOMAIN netlog : netlog[p].ev = "fetch" }
SettleIdx == { p \in DOMAIN netlog : netlog[p].ev = "settle" }
Attempts == Cardinality(FetchIdx)
\* a settled attempt failed: fetch rejected, status outside 200..299, or body unparsable
Failed(resp) == resp.rejected \/ resp.status < 200 \/ resp.status > 299 \/ ~resp.parses
AllSettledFailed == \A p \in SettleIdx : Failed(netlog[p].resp)
LastEvent == netlog[Len(netlog)]
ErrorOf(resp) ==
    IF resp.rejected THEN "TypeError: Failed to fetch"
    ELSE IF resp.status = 404 THEN "HTTP error! status: 404"
    ELSE IF resp.status = 500 THEN "HTTP error! status: 500"
    ELSE "SyntaxError"

\* C1: when every attempt of a call has failed and no attempt is pending or
\* scheduled, exactly `retries` attempts were made and the call has thrown the
\* error of the last attempt.
C1_AllFailThrowsLast ==
    (/\ Called
     /\ Attempts >= 1
     /\ AllSettledFailed
     /\ TheCall.phase \notin {"fetching", "waiting"})
    => /\ Attempts = TheCall.retries
       /\ TheCall.phase = "thrown"
       /\ LastEvent.ev = "settle"
       /\ LastEvent.i = TheCall.retries - 1
       /\ TheCall.error = ErrorOf(LastEvent.resp)

\* three failures of different classes, the last one a 404: the 404 error is thrown
C1_Witness ==
    /\ Called
    /\ TheCall.retries = 3
    /\ TheCall.phase = "thrown"
    /\ Attempts = 3
    /\ netlog[2].resp = TransportFailure
    /\ LastEvent.resp = HttpResponse(404, FALSE, << >>)
    /\ TheCall.error = "HTTP error! status: 404"

\* C2: once attempt k+1 has succeeded after k failures, exactly k+1 attempts
\* were made, the call has returned the parsed body of attempt k+1, and
\* nothing is attempted afterwards (the success stays the last event).
C2_SuccessAfterFailures ==
    (/\ Called
     /\ \E p \in SettleIdx : ~Failed(netlog[p].resp))
    => /\ LastEvent.ev = "settle"
       /\ ~Failed(LastEvent.resp)
       /\ \A p \in SettleIdx : p # Len(netlog) => Failed(netlog[p].resp)
       /\ Attempts = LastEvent.i + 1
       /\ Attempts <= TheCall.retries
       /\ TheCall.phase = "returned"
       /\ TheCall.result = Some(LastEvent.resp.json)

\* fails twice, then succeeds with the three-state body, budget 3
C2_Witness ==
    /\ Called
    /\ TheCall.retries = 3
    /\ TheCall.phase = "returned"
    /\ Attempts = 3
    /\ Cardinality({ p \in SettleIdx : Failed(netlog[p].resp) }) = 2
    /\ TheCall.result = Some(<<[state |-> "Texas"], [state |-> ""], [state |-> "Alabama"]>>)

\* C3: attempt i+1 starts no earlier than 2^i seconds after attempt i failed,
\* the timer set after failed attempt i runs 2^i seconds, and no timer is
\* set after the last attempt of the budget.
C3_BackoffDelays ==
    Called =>
      /\ \A p \in FetchIdx :
            netlog[p].i >= 1 =>
              /\ netlog[p - 1].ev = "settle"
              /\ netlog[p - 1].i = netlog[p].i - 1
              /\ netlog[p].at - netlog[p - 1].at >= Pow2(netlog[p].i - 1) * 1000
      /\ TheCall.phase = "waiting" =>
              /\ TheCall.i < TheCall.retries - 1
              /\ LastEvent.ev = "settle"
              /\ TheCall.timer = Max(0, Pow2(TheCall.i) * 1000 - (clock - LastEvent.at))
      /\ TheCall.phase = "thrown" => clock = LastEvent.at

\* the third attempt of a budget of 3 has started, 1 s + 2 s after the first failure
C3_Witness ==
    /\ Called
    /\ TheCall.retries = 3
    /\ TheCall.phase = "fetching"
    /\ TheCall.i = 2
    /\ clock = 3000
    /\ LastEvent.ev = "fetch"
    /\ LastEvent.at = 3000

\* C4: a failed attempt of any class (transport failure, 404, 500, unparsable
\* body) leaves the call in the same place: attempt i is used up and either
\* the 2^i s timer is set or, on the last attempt, the call throws.
C4_FailureClassesAlike ==
    [][ \A resp \in FailureResponses :
          (/\ Called
           /\ netlog' = Append(netlog, [resp |-> resp, i |-> TheCall.i, at |-> clock, ev |-> "settle"]))
          => /\ BagCardinality(calls') = 1
             /\ TheCallAfter.i = TheCall.i
             /\ TheCallAfter.result = Undefined
             /\ IF TheCall.i < TheCall.retries - 1
                  THEN TheCallAfter.phase = "waiting" /\ TheCallAfter.timer = Pow2(TheCall.i) * 1000
                  ELSE TheCallAfter.phase = "thrown" ]_vars

\* a 404, a transport failure and an unparsable body each used one attempt of a budget of 3
C4_Witness ==
    /\ Called
    /\ TheCall.retries = 3
    /\ TheCall.phase = "thrown"
    /\ Attempts = 3
    /\ netlog[2].resp = HttpResponse(404, FALSE, << >>)
    /\ netlog[4].resp = TransportFailure
    /\ netlog[6].resp = HttpResponse(200, FALSE, << >>)


(***************************************************************************)
(* Spec: the App component (App.js 498-618): fetch stages, selection,      *)
(* search.                                                                 *)
(***************************************************************************)
\* JS truthiness of a string-or-null value
Truthy(v) == v \notin {"", null, undefined}

\* v || ''
OrEmpty(v) == IF Truthy(v) THEN v ELSE ""

Range(q) == { q[i] : i \in DOMAIN q }

\* UTF-16 code unit order of the strings the API serves (Array.prototype.sort default)
CodeUnitOrder == <<"", "Alabama", "Auburn", "Dallas", "Mobile", "Texas">>
Rank(x) == CHOOSE i \in DOMAIN CodeUnitOrder : CodeUnitOrder[i] = x

RECURSIVE InsertSorted(_, _)
InsertSorted(q, x) ==
    IF q = << >> THEN <<x>>
    ELSE IF Rank(x) < Rank(Head(q)) THEN <<x>> \o q
    ELSE <<Head(q)>> \o InsertSorted(Tail(q), x)

\* array.sort() on strings
RECURSIVE Sort(_)
Sort(q) == IF q = << >> THEN << >> ELSE InsertSorted(Sort(SubSeq(q, 1, Len(q) - 1)), q[Len(q)])

\* data.map(item => item.state)
MapState(data) == [i \in DOMAIN data |-> data[i].state]

\* variant: the fields are copied as they are, without || ''
ProjectRaw(hospital) == [f \in HospitalFields |-> hospital[f]]

\* the five-field projection of handleSearch
Project(hospital) == [f \in HospitalFields |-> OrEmpty(hospital[f])]

\* variant: tests that the field exists instead of its truthiness
HasNameField(h) == h["Hospital Name"] # undefined

\* h => h['Hospital Name']
HasName(h) == Truthy(h["Hospital Name"])

\* data.map(...).filter(h => h['Hospital Name'])
FilteredData(data) ==
    LET mapped == [i \in DOMAIN data |-> Project(data[i])]
    IN SelectSeq(mapped, HasName)

\* variant: the update overwrites the record instead of spreading prev
SetLoadingOverwrite(prev, stage, v) ==
    [s \in {"states", "cities", "hospitals"} |-> IF s = stage THEN v ELSE FALSE]

\* setIsLoading(prev => ({ ...prev, [stage]: v }))
SetLoading(prev, stage, v) == [prev EXCEPT ![stage] = v]

\* variant: a new request aborts the earlier requests of its stage
StartCallAbortingEarlier(cs, c) ==
    [x \in { y \in BagToSet(cs) : y.stage # c.stage } |-> cs[x]] (+) One(c)

\* a stage calls fetchWithRetry; the calls already in flight stay in flight
StartCall(cs, c) == cs (+) One(c)

\* variant: the selected city survives, only the lists are cleared
ClearCitiesAndResults ==
    /\ cities' = << >>
    /\ searchResults' = << >>
    /\ UNCHANGED selectedCity

\* variant: the search results survive a state change
ClearCitiesAndCity ==
    /\ cities' = << >>
    /\ selectedCity' = null
    /\ UNCHANGED searchResults

\* setCities([]); setSelectedCity(null); setSearchResults([])
ClearCitySearch ==
    /\ cities' = << >>
    /\ selectedCity' = null
    /\ searchResults' = << >>

Init ==
    /\ calls = NoCalls
    /\ ObsInit
    /\ AppInit
    /\ storage = AbsentSlot
    /\ bookings = getBookings(storage)
    /\ lastSave = "none"
    /\ lastOp = NoOp

\* The mount effects: fetchStates starts; the [selectedState] effect takes
\* its !selectedState branch.
Mount ==
    /\ ~mounted
    /\ mounted' = TRUE
    /\ isLoading' = SetLoading(isLoading, "states", TRUE)
    /\ calls' = StartCall(calls, fetchWithRetry("states", StatesUrl, DefaultRetries))
    /\ ClearCitySearch
    /\ UNCHANGED <<states, selectedState, route, modalVars, navVars, obsVars, storeVars>>
    /\ NoCatch

\* The state Dropdown's onSelect (setSelectedState) and the [selectedState]
\* effect it triggers.
SelectState(s) ==
    /\ mounted
    /\ route = "Home"
    /\ ~isLoading.states
    /\ s \in Range(states)
    /\ s # selectedState
    /\ selectedState' = s
    /\ ClearCitySearch
    /\ IF ~Truthy(s)
         THEN UNCHANGED <<calls, isLoading>>
         ELSE /\ BagCardinality(calls) < MaxInFlight
              /\ isLoading' = SetLoading(isLoading, "cities", TRUE)
              /\ calls' = StartCall(calls, fetchWithRetry("cities", CitiesUrl(s), DefaultRetries))
    /\ UNCHANGED <<states, route, mounted, modalVars, navVars, obsVars, storeVars>>
    /\ NoCatch

\* The city Dropdown's onSelect (setSelectedCity)
SelectCity(c) ==
    /\ mounted
    /\ route = "Home"
    /\ ~isLoading.cities
    /\ c \in Range(cities)
    /\ c # selectedCity
    /\ selectedCity' = c
    /\ UNCHANGED <<calls, states, cities, selectedState, searchResults, isLoading,
                   route, mounted, modalVars, navVars, obsVars, storeVars>>
    /\ NoCatch

\* variant: the search button is not disabled while a search is loading
handleSearchNeverDisabled ==
    /\ mounted
    /\ route = "Home"
    /\ ~(~Truthy(selectedState) \/ ~Truthy(selectedCity))
    /\ BagCardinality(calls) < MaxInFlight
    /\ isLoading' = SetLoading(isLoading, "hospitals", TRUE)
    /\ searchResults' = << >>
    /\ calls' = StartCall(calls, fetchWithRetry("hospitals", DataUrl(selectedState, selectedCity),
                                                DefaultRetries))
    /\ UNCHANGED <<states, cities, selectedState, selectedCity, route, mounted,
                   modalVars, navVars, obsVars, storeVars>>
    /\ NoCatch

\* variant: the results of the earlier search stay until the new ones arrive
handleSearchKeepsResults ==
    /\ mounted
    /\ route = "Home"
    /\ ~(~Truthy(selectedState) \/ ~Truthy(selectedCity) \/ isLoading.hospitals)
    /\ BagCardinality(calls) < MaxInFlight
    /\ isLoading' = SetLoading(isLoading, "hospitals", TRUE)
    /\ searchResults' = searchResults
    /\ calls' = StartCall(calls, fetchWithRetry("hospitals", DataUrl(selectedState, selectedCity),
                                                DefaultRetries))
    /\ UNCHANGED <<states, cities, selectedState, selectedCity, route, mounted,
                   modalVars, navVars, obsVars, storeVars>>
    /\ NoCatch

\* searchBtn onClick: handleSearch up to its await
handleSearch ==
    /\ mounted
    /\ route = "Home"
    /\ ~(~Truthy(selectedState) \/ ~Truthy(selectedCity) \/ isLoading.hospitals)
    /\ BagCardinality(calls) < MaxInFlight
    /\ isLoading' = SetLoading(isLoading, "hospitals", TRUE)
    /\ searchResults' = << >>
    /\ calls' = StartCall(calls, fetchWithRetry("hospitals", DataUrl(selectedState, selectedCity),
                                                DefaultRetries))
    /\ UNCHANGED <<states, cities, selectedState, selectedCity, route, mounted,
                   modalVars, navVars, obsVars, storeVars>>
    /\ NoCatch

\* variant: the loading flag is cleared at the end of the try block, not in a finally block
StageEndsNoFinally(w, c) ==
    LET ok == c.phase = "returned" /\ c.result # Undefined
        data == c.result[1]
    IN
    /\ calls' = calls (-) One(w)
    /\ isLoading' = IF ok THEN SetLoading(isLoading, c.stage, FALSE) ELSE isLoading
    /\ states' = IF c.stage = "states" /\ ok THEN Sort(MapState(data)) ELSE states
    /\ cities' = IF c.stage = "cities" /\ ok THEN Sort(data) ELSE cities
    /\ searchResults' =
          IF c.stage = "hospitals"
            THEN (IF ok THEN FilteredData(data) ELSE << >>)
            ELSE searchResults
    /\ lastCatch' = IF ok THEN "none" ELSE c.stage
    /\ UNCHANGED <<selectedState, selectedCity, route, mounted, modalVars, navVars,
                   clock, netlog, storeVars>>

\* fetchWithRetry of the in-flight call w has returned or thrown (c is the
\* finished call): the rest of the stage's try block, or its catch block
\* (console.error("Failed to fetch <stage>:", e), and for hospitals
\* setSearchResults([])), and its finally block.
StageEnds(w, c) ==
    LET ok == c.phase = "returned" /\ c.result # Undefined
        data == c.result[1]
    IN
    /\ calls' = calls (-) One(w)
    /\ isLoading' = SetLoading(isLoading, c.stage, FALSE)
    /\ states' = IF c.stage = "states" /\ ok THEN Sort(MapState(data)) ELSE states
    /\ cities' = IF c.stage = "cities" /\ ok THEN Sort(data) ELSE cities
    /\ searchResults' =
          IF c.stage = "hospitals"
            THEN (IF ok THEN FilteredData(data) ELSE << >>)
            ELSE searchResults
    /\ lastCatch' = IF ok THEN "none" ELSE c.stage
    /\ UNCHANGED <<selectedState, selectedCity, route, mounted, modalVars, navVars,
                   clock, netlog, storeVars>>

\* the pending fetch() of the in-flight call w settles with resp
Respond(w, resp) ==
    /\ BagIn(w, calls)
    /\ w.phase = "fetching"
    /\ LET c == OnResponse(w, resp) IN
        IF c.phase = "waiting"
          THEN /\ calls' = (calls (-) One(w)) (+) One(c)
               /\ UNCHANGED <<appVars, obsVars, storeVars>>
               /\ NoCatch
          ELSE StageEnds(w, c)

\* the backoff timer of the in-flight call w fires and the next attempt starts
TimerFires(w) ==
    /\ BagIn(w, calls)
    /\ w.phase = "waiting"
    /\ w.timer = 0
    /\ LET c == OnTimer(w) IN
        IF c.phase = "fetching"
          THEN /\ calls' = (calls (-) One(w)) (+) One(c)
               /\ UNCHANGED <<appVars, obsVars, storeVars>>
               /\ NoCatch
          ELSE StageEnds(w, c)

\* one second passes
Tick ==
    /\ TimerPending(calls)
    /\ calls' = TimersAfterTick(calls)
    /\ UNCHANGED <<appVars, obsVars, storeVars>>
    /\ NoCatch

\* window.history.pushState({}, '', path): the entries after the current one
\* are dropped and the new entry becomes the current one
pushState(h, path) ==
    [entries |-> Append(SubSeq(h.entries, 1, h.at), path), at |-> h.at + 1]

\* navigate(newRoute)
navigate(newRoute) ==
    /\ mounted
    /\ history.at < MaxHistory
    /\ LET path == IF newRoute = "MyBookings" THEN "/my-bookings" ELSE "/" IN
        history' = pushState(history, path)
    /\ route' = newRoute
    /\ mobileMenuOpen' = FALSE
    /\ UNCHANGED <<calls, states, cities, selectedState, selectedCity, searchResults,
                   isLoading, mounted, modalVars, obsVars, storeVars>>
    /\ NoCatch

\* variant: no popstate listener is registered
handlePopStateUnheard(delta) ==
    /\ mounted
    /\ history.at + delta \in DOMAIN history.entries
    /\ history' = [history EXCEPT !.at = history.at + delta]
    /\ route' = route
    /\ UNCHANGED <<calls, states, cities, selectedState, selectedCity, searchResults,
                   isLoading, mounted, mobileMenuOpen, modalVars, obsVars, storeVars>>
    /\ NoCatch

\* The browser's back (delta = -1) or forward (delta = 1) within the entries
\* of this document, and the popstate listener handlePopState.
handlePopState(delta) ==
    /\ mounted
    /\ history.at + delta \in DOMAIN history.entries
    /\ history' = [history EXCEPT !.at = history.at + delta]
    /\ route' = RouteOf(pathname(history'))
    /\ UNCHANGED <<calls, states, cities, selectedState, selectedCity, searchResults,
                   isLoading, mounted, mobileMenuOpen, modalVars, obsVars, storeVars>>
    /\ NoCatch

\* the mobile menu button: setMobileMenuOpen(!mobileMenuOpen)
toggleMobileMenu ==
    /\ mounted
    /\ mobileMenuOpen' = ~mobileMenuOpen
    /\ UNCHANGED <<calls, searchVars, history, modalVars, obsVars, storeVars>>
    /\ NoCatch

Next ==
    \/ Mount
    \/ \E s \in Range(states) : SelectState(s)
    \/ \E c \in Range(cities) : SelectCity(c)
    \/ handleSearch
    \/ \E w \in BagToSet(calls) : \E resp \in Responses(w.url) : Respond(w, resp)
    \/ \E w \in BagToSet(calls) : TimerFires(w)
    \/ Tick
    \/ \E r \in {"Home", "MyBookings"} : r # route /\ navigate(r)

Spec == Init /\ [][Next]_vars

(***************************************************************************)
(* Properties of the search state controller, over Spec.                   *)
(***************************************************************************)
Stages == {"states", "cities", "hospitals"}
InFlight(stage, url) == \E c \in BagToSet(calls) : c.stage = stage /\ c.url = url

\* C5: no step that changes the selected state or the route removes or alters
\* a request in flight, and no step takes more than one request out of flight;
\* so a response for an earlier selection still resolves (witness: the cities
\* of Alabama are stored while Texas is the selected state).
C5_NeverCancelled ==
    [][ /\ (selectedState' # selectedState \/ route' # route) =>
              \A c \in BagToSet(calls) : CopiesIn(c, calls') >= CopiesIn(c, calls)
        /\ BagCardinality(calls') >= BagCardinality(calls) - 1 ]_vars

\* Texas is selected and its fetch is still in flight, yet the cities list holds Alabama's cities
C5_Witness ==
    /\ selectedState = "Texas"
    /\ cities = <<"Auburn", "Mobile">>
    /\ InFlight("cities", [city |-> "", path |-> "/cities", state |-> "Texas"])

\* C6: a step that changes the selected state leaves the cities list, the
\* selected city and the search results empty, and the fetch it starts (if the
\* new state is not empty) is still on its first, unresolved attempt.
C6_StateChangeClears ==
    [][ selectedState' # selectedState =>
          /\ cities' = << >>
          /\ selectedCity' = null
          /\ searchResults' = << >>
          /\ IF selectedState' = ""
               THEN calls' = calls
               ELSE \E c \in BagToSet(calls') :
                      /\ calls' = calls (+) SetToBag({c})
                      /\ c.stage = "cities"
                      /\ c.url.state = selectedState'
                      /\ c.phase = "fetching"
                      /\ c.i = 0 ]_vars

\* the state went from Alabama (city chosen, search started) to Texas: all three are empty
C6_Witness ==
    /\ selectedState = "Texas"
    /\ cities = << >>
    /\ selectedCity = null
    /\ searchResults = << >>
    /\ InFlight("cities", [city |-> "", path |-> "/cities", state |-> "Texas"])
    /\ InFlight("hospitals", [city |-> "Mobile", path |-> "/data", state |-> "Alabama"])

\* C7 as stated: every change of the selected state or of the selected city
\* leaves the search results empty.
C7_Original ==
    [][ (selectedState' # selectedState \/ selectedCity' # selectedCity)
          => searchResults' = << >> ]_vars

\* C7 (amended): a change of the selected state empties the search results; a
\* change of the selected city alone leaves the search results as they were.
C7_CityChangeKeepsResults ==
    [][ /\ selectedState' # selectedState => searchResults' = << >>
        /\ (selectedCity' # selectedCity /\ selectedState' = selectedState)
              => searchResults' = searchResults ]_vars

\* results of the Mobile search are displayed while Auburn is the selected city
C7_Witness ==
    /\ selectedState = "Alabama"
    /\ selectedCity = "Auburn"
    /\ searchResults # << >>
    /\ searchResults[1]["City"] = "Mobile"
    /\ calls = EmptyBag

\* C8: the step that starts a stage sets that stage's flag and no other, the
\* step that ends a stage (on success or after the last failed attempt) clears
\* that stage's flag and no other, and no other step changes a flag.
C8_LoadingFlags ==
    [][ /\ \A c \in BagToSet(calls') :
              calls' = calls (+) SetToBag({c})
                => /\ isLoading'[c.stage]
                   /\ \A o \in Stages \ {c.stage} : isLoading'[o] = isLoading[o]
        /\ \A c \in BagToSet(calls) :
              calls' = calls (-) SetToBag({c})
                => /\ ~isLoading'[c.stage]
                   /\ \A o \in Stages \ {c.stage} : isLoading'[o] = isLoading[o]
        /\ BagCardinality(calls') = BagCardinality(calls) => isLoading' = isLoading ]_vars

\* the states stage ended with data, the cities stage of Alabama ended without: no flag is left set
C8_Witness ==
    /\ states # << >>
    /\ selectedState = "Alabama"
    /\ cities = << >>
    /\ calls = EmptyBag
    /\ isLoading = [states |-> FALSE, cities |-> FALSE, hospitals |-> FALSE]

\* C9: every record of the search results has a non-empty hospital name.
C9_ResultsHaveNames ==
    \A n \in DOMAIN searchResults :
        /\ searchResults[n]["Hospital Name"] # ""
        /\ searchResults[n]["Hospital Name"] # undefined

\* of a response of three records, two without a name, only the named one is displayed
C9_Witness ==
    /\ Len(searchResults) = 1
    /\ searchResults[1]["Hospital Name"] = "Mercy"
    /\ searchResults[1]["Hospital Type"] = ""
    /\ searchResults[1]["Hospital overall rating"] = ""


(***************************************************************************)
(* SpecStore: the booking list and its persisted copy                      *)
(* (App.js 23-39, 185-189, 507, 601-611).                                  *)
(***************************************************************************)
\* key order of a search result record (the object literal of handleSearch)
HospitalFieldOrder ==
    <<"Hospital Name", "City", "State", "Hospital Type", "Hospital overall rating">>

\* { ...hospital, bookingDate: formattedDate, bookingTime: selectedTimeSlot }
NewBooking(hospital, formattedDate, timeSlot) ==
    JObj([n \in DOMAIN HospitalFieldOrder |->
             Mem(HospitalFieldOrder[n], JStr(hospital[HospitalFieldOrder[n]]))]
         \o <<Mem("bookingDate", JStr(formattedDate)), Mem("bookingTime", JStr(timeSlot))>>)

\* search results a booking can be made for
BookableHospitals ==
    { Project(ApiHospital("Mercy", "Mobile", "Alabama", "Acute Care", "4")),
      Project(ApiHospital("Mercy", "Dallas", "Texas", undefined, undefined)) }

\* formatted dates and time slots tried
BookingDates == {"2026-11-06", "2026-11-09"}
SlotsTried == {"02:00 PM"}

\* what the slot may hold when the App mounts
InitialSlots ==
    { AbsentSlot,
      SlotWith(<< >>),
      SlotWith(<<P("["), P("]")>>),
      SlotWith(JSONstringify(JArr(<<NewBooking(
          Project(ApiHospital("Mercy", "Mobile", "Alabama", "Acute Care", "4")),
          "2026-11-06", "02:00 PM")>>))),
      SlotWith(<<P("[")>>),
      SlotWith(<<P("{"), P("}")>>),
      SlotWith(<<WordTok("null")>>),
      UnreadableSlot }

\* variant: the positions are counted from 1
RECURSIVE FilterIndexNotFromOne(_, _, _)
FilterIndexNotFromOne(q, index, i) ==
    IF q = << >> THEN << >>
    ELSE (IF i + 1 # index THEN <<Head(q)>> ELSE << >>)
           \o FilterIndexNotFromOne(Tail(q), index, i + 1)

\* variant: the records equal to the one at index are filtered out
FilterIndexNotByValue(q, index, i) ==
    IF index - i + 1 \in DOMAIN q
      THEN SelectSeq(q, LAMBDA x : x # q[index - i + 1])
      ELSE q

\* bookings.filter((_, i) => i !== index), i counted from 0
RECURSIVE FilterIndexNot(_, _, _)
FilterIndexNot(q, index, i) ==
    IF q = << >> THEN << >>
    ELSE (IF i # index THEN <<Head(q)>> ELSE << >>) \o FilterIndexNot(Tail(q), index, i + 1)

InitStore ==
    /\ calls = NoCalls
    /\ ObsInit
    /\ AppInit
    /\ storage \in InitialSlots
    /\ bookings = getBookings(storage)
    /\ lastSave = "none"
    /\ lastOp = NoOp

\* variant: the list of the current render is saved, not the updated one
handleBookSavesOld(newBooking, written) ==
    /\ bookings.t = "arr"
    /\ Len(bookings.a) < MaxBookings
    /\ bookings' = JArr(Append(bookings.a, newBooking))
    /\ storage' = saveBookings(storage, bookings, written)
    /\ lastSave' = IF written THEN "ok" ELSE "failed"
    /\ lastOp' = [op |-> "book", index |-> Len(bookings.a), undo |-> <<bookings>>]
    /\ UNCHANGED <<calls, searchVars, navVars, obsVars>>
    /\ NoCatch

\* variant: the list in memory is updated only when the save has written
handleBookOnlyIfSaved(newBooking, written) ==
    /\ bookings.t = "arr"
    /\ Len(bookings.a) < MaxBookings
    /\ LET updatedBookings == JArr(Append(bookings.a, newBooking)) IN
        /\ bookings' = IF written THEN updatedBookings ELSE bookings
        /\ storage' = saveBookings(storage, updatedBookings, written)
    /\ lastSave' = IF written THEN "ok" ELSE "failed"
    /\ lastOp' = [op |-> "book", index |-> Len(bookings.a), undo |-> <<bookings>>]
    /\ UNCHANGED <<calls, searchVars, navVars, obsVars>>
    /\ NoCatch

\* App's handleBook(newBooking); the spread throws when bookings is not an array
handleBook(newBooking, written) ==
    /\ bookings.t = "arr"
    /\ Len(bookings.a) < MaxBookings
    /\ LET updatedBookings == JArr(Append(bookings.a, newBooking)) IN
        /\ bookings' = updatedBookings
        /\ storage' = saveBookings(storage, updatedBookings, written)
    /\ lastSave' = IF written THEN "ok" ELSE "failed"
    /\ lastOp' = [op |-> "book", index |-> Len(bookings.a), undo |-> <<bookings>>]
    /\ UNCHANGED <<calls, searchVars, navVars, obsVars>>
    /\ NoCatch

\* handleCancelBooking(index); bookings.filter throws when bookings is no array
handleCancelBooking(index, written) ==
    /\ bookings.t = "arr"
    /\ LET updatedBookings == JArr(FilterIndexNot(bookings.a, index, 0)) IN
        /\ bookings' = updatedBookings
        /\ storage' = saveBookings(storage, updatedBookings, written)
    /\ lastSave' = IF written THEN "ok" ELSE "failed"
    /\ lastOp' = [op |-> "cancel", index |-> index, undo |-> << >>]
    /\ UNCHANGED <<calls, appVars, obsVars>>
    /\ NoCatch

(***************************************************************************)
(* BookingModal (App.js 163-285) and the handlers the pages pass to it.    *)
(* A Date is an instant, in minutes after 2026-11-06T00:00Z; the browser's *)
(* time zone is tz minutes east of UTC.                                    *)
(***************************************************************************)
DaysShown == 7              \* Array(7)
MinutesPerDay == 1440       \* setDate(getDate() + 1) moves a Date by one day

timeSlots ==
    <<"09:00 AM", "10:00 AM", "11:00 AM", "01:00 PM", "02:00 PM", "03:00 PM",
      "05:00 PM", "06:00 PM", "07:00 PM">>

\* dates[i]: today moved by setDate(today.getDate() + i), the same local time i days later
DateAt(today, i) == today + i * MinutesPerDay

\* the calendar dates from 2026-11-05 on, as toISOString writes them
ISODates ==
    <<"2026-11-05", "2026-11-06", "2026-11-07", "2026-11-08", "2026-11-09",
      "2026-11-10", "2026-11-11", "2026-11-12", "2026-11-13", "2026-11-14">>

\* date.toISOString().split('T')[0]: the calendar date of the instant in UTC
toISODate(date) == ISODates[(date \div MinutesPerDay) + 2]

\* the calendar date of the instant in the browser's time zone (what the modal displays)
toLocalDate(date, tz) == ISODates[((date + tz) \div MinutesPerDay) + 2]

\* new Date() when the modal mounts, and the browser's time zone, tried:
\* noon of 2026-11-06 in UTC
NowsTried == { [tz |-> 0, at |-> 720] }
\* indices of dates[] and time slots the user picks
DatesTried == {0, 3}

\* useState(dates[0]), useState(null) of a BookingModal mounted at `now`
NewModal(now) ==
    [today |-> now.at, tz |-> now.tz, selectedDate |-> DateAt(now.at, 0),
     selectedTimeSlot |-> null]

\* A HospitalCard's Book button: openBookingModal(hospital). A BookingModal
\* that is already mounted keeps its state and gets the new hospital.
openBookingModal(hospital, now) ==
    /\ mounted
    /\ route = "Home"
    /\ hospital \in Range(searchResults)
    /\ bookingHospital # <<hospital>>
    /\ bookingHospital' = <<hospital>>
    /\ modal' = IF bookingHospital = NoHospital THEN NewModal(now) ELSE modal
    /\ UNCHANGED <<calls, searchVars, navVars, obsVars, storeVars>>
    /\ NoCatch

\* variant: closing the modal saves the booking list
closeBookingModalSaving ==
    /\ bookingHospital # NoHospital
    /\ bookingHospital' = NoHospital
    /\ modal' = NoModal
    /\ storage' = saveBookings(storage, bookings, TRUE)
    /\ UNCHANGED <<calls, searchVars, navVars, obsVars, bookings, lastSave, lastOp>>
    /\ NoCatch

\* closeBookingModal(): the modal's X and Cancel buttons
closeBookingModal ==
    /\ bookingHospital # NoHospital
    /\ bookingHospital' = NoHospital
    /\ modal' = NoModal
    /\ UNCHANGED <<calls, searchVars, navVars, obsVars, storeVars>>
    /\ NoCatch

\* a date button of the modal: setSelectedDate(dates[i])
setSelectedDate(i) ==
    /\ bookingHospital # NoHospital
    /\ i \in 0..(DaysShown - 1)
    /\ modal' = [modal EXCEPT !.selectedDate = DateAt(modal.today, i)]
    /\ UNCHANGED <<calls, searchVars, bookingHospital, navVars, obsVars, storeVars>>
    /\ NoCatch

\* a time slot button of the modal: setSelectedTimeSlot(slot)
setSelectedTimeSlot(slot) ==
    /\ bookingHospital # NoHospital
    /\ slot \in Range(timeSlots)
    /\ modal' = [modal EXCEPT !.selectedTimeSlot = slot]
    /\ UNCHANGED <<calls, searchVars, bookingHospital, navVars, obsVars, storeVars>>
    /\ NoCatch

\* The Confirm Booking button (disabled without a time slot) and
\* BookingModal's handleBook: onBook(...) then onClose(). When App's
\* handleBook throws (bookings is not iterable), onClose() is not reached.
BookingModal_handleBook(written) ==
    /\ bookingHospital # NoHospital
    /\ IF modal.selectedTimeSlot = null
         THEN /\ lastOp' = [op |-> "confirm disabled", index |-> 0, undo |-> << >>]
              /\ UNCHANGED <<calls, appVars, obsVars, bookings, storage, lastSave>>
              /\ NoCatch
         ELSE IF bookings.t # "arr"
         THEN /\ lastOp' = [op |-> "confirm threw", index |-> 0, undo |-> << >>]
              /\ UNCHANGED <<calls, appVars, obsVars, bookings, storage, lastSave>>
              /\ NoCatch
         ELSE /\ handleBook(NewBooking(bookingHospital[1], toISODate(modal.selectedDate),
                                       modal.selectedTimeSlot), written)
              /\ bookingHospital' = NoHospital
              /\ modal' = NoModal

\* a Cancel Booking button of MyBookingsPage: onCancelBooking(index), index
\* the position of a rendered booking (bookings.map((booking, index) => ...))
onCancelBooking(index, written) ==
    /\ mounted
    /\ route = "MyBookings"
    /\ index \in 0..(Len(bookings.a) - 1)
    /\ handleCancelBooking(index, written)

NextStore ==
    \/ \E h \in BookableHospitals, d \in BookingDates, t \in SlotsTried, written \in BOOLEAN :
          handleBook(NewBooking(h, d, t), written) /\ UNCHANGED modalVars
    \/ \E index \in 0..(MaxBookings - 1), written \in BOOLEAN :
          index < Len(bookings.a) /\ handleCancelBooking(index, written)

SpecStore == InitStore /\ [][NextStore]_vars

(***************************************************************************)
(* SpecApp: the whole App. The user waits for the fetch in flight before   *)
(* the next state selection or search, looks for hospitals in Mobile,      *)
(* Alabama, picks the other page when navigating, and every save writes;   *)
(* the slot starts absent or holding the text null.                        *)
(***************************************************************************)
StatesTriedInApp == {"Alabama"}
CitiesTriedInApp == {"Mobile"}

InitApp ==
    /\ calls = NoCalls
    /\ ObsInit
    /\ AppInit
    /\ storage \in { AbsentSlot, SlotWith(<<WordTok("null")>>) }
    /\ bookings = getBookings(storage)
    /\ lastSave = "none"
    /\ lastOp = NoOp

NextApp ==
    \/ Mount
    \/ \E s \in Range(states) \cap StatesTriedInApp : calls = NoCalls /\ SelectState(s)
    \/ \E c \in Range(cities) \cap CitiesTriedInApp : SelectCity(c)
    \/ calls = NoCalls /\ handleSearch
    \/ \E w \in BagToSet(calls) : \E resp \in Responses(w.url) : Respond(w, resp)
    \/ \E w \in BagToSet(calls) : TimerFires(w)
    \/ Tick
    \/ \E r \in {"Home", "MyBookings"} : r # route /\ navigate(r)
    \/ \E h \in Range(searchResults), now \in NowsTried : openBookingModal(h, now)
    \/ closeBookingModal
    \/ \E i \in DatesTried : setSelectedDate(i)
    \/ \E t \in SlotsTried : setSelectedTimeSlot(t)
    \/ BookingModal_handleBook(TRUE)
    \/ \E index \in 0..(MaxBookings - 1) : onCancelBooking(index, TRUE)

SpecApp == InitApp /\ [][NextApp]_vars

(***************************************************************************)
(* Properties of the booking store, over SpecStore.                        *)
(***************************************************************************)
\* C10: whenever saveBookings(B) has written the slot, getBookings() on the
\* slot returns an array equal to B (B the list just passed to saveBookings).
C10_SaveLoadRoundTrip ==
    [][ lastSave' = "ok" =>
          /\ storage'.present
          /\ getBookings(storage') = bookings' ]_vars

\* the empty list was saved (after cancelling the only booking) and reads back as the empty list
C10_Witness ==
    /\ lastSave = "ok"
    /\ bookings = [a |-> << >>, s |-> "", t |-> "arr"]
    /\ storage = SlotWith(<<P("["), P("]")>>)

\* the parsed value of the text held by a readable, non-empty slot
StoredValue == JSONparse(storage.text)
HoldsArray ==
    storage.readable /\ storage.present /\ storage.text # << >>
      /\ StoredValue.ok /\ StoredValue.v.t = "arr"

\* C11 as stated: getBookings returns the persisted array when the slot holds
\* one, and the empty array in every other case (slot absent, unreadable,
\* text that does not parse, text that parses to something other than an array).
C11_EmptyUnlessArray ==
    lastSave = "none" =>
        /\ HoldsArray => bookings = StoredValue.v
        /\ ~HoldsArray => bookings = JArr(<< >>)

\* what getBookings would read from the slot now
Persisted == getBookings(storage)

\* C12: a save that fails (setItem throws inside saveBookings, which catches
\* it) leaves the slot exactly as it was.
C12_FailedSaveKeepsSlot ==
    [][ lastSave' = "failed" => storage' = storage ]_vars

\* a booking was made in memory, its save failed, the slot still holds the text []
C12_Witness ==
    /\ lastSave = "failed"
    /\ lastOp.op = "book"
    /\ Len(bookings.a) = 1
    /\ storage = SlotWith(<<P("["), P("]")>>)

\* C13: before any book or cancel the list in memory is what getBookings
\* returns, and once a book or cancel has saved successfully the text under
\* the key parses to exactly the list in memory.
C13_InSyncAfterSave ==
    /\ lastOp.op = "none" => bookings = getBookings(storage)
    /\ lastSave = "ok" =>
          /\ storage.present
          /\ StoredValue.ok
          /\ StoredValue.v = bookings

\* two different bookings in memory, saved, and the slot parses to the same two in the same order
C13_Witness ==
    /\ lastSave = "ok"
    /\ Len(bookings.a) = 2
    /\ bookings.a[1] # bookings.a[2]
    /\ StoredValue.v.a[1] = bookings.a[1]
    /\ StoredValue.v.a[2] = bookings.a[2]

\* C14 as stated: from a failed save until the next successful save the list
\* in memory and the persisted list differ; after a successful save they are equal.
C14_Original ==
    /\ lastSave = "failed" => Persisted # bookings
    /\ lastSave = "ok" => Persisted = bookings

\* C14 (amended): a book or cancel whose save fails changes the list in memory
\* and leaves the slot as it was, so the two differ after it if they were
\* equal before it; a book or cancel whose save succeeds makes them equal.
C14_FailedSaveOutOfSync ==
    [][ /\ (lastSave' = "failed" /\ lastOp' # lastOp) =>
              /\ storage' = storage
              /\ bookings' # bookings
              /\ Persisted = bookings => getBookings(storage') # bookings'
        /\ (lastSave' = "ok" /\ lastOp' # lastOp) => getBookings(storage') = bookings' ]_vars

\* a cancel whose save failed: the list in memory is empty, the slot still holds one booking
C14_Witness ==
    /\ lastSave = "failed"
    /\ lastOp.op = "cancel"
    /\ bookings = JArr(<< >>)
    /\ Persisted.t = "arr"
    /\ Len(Persisted.a) = 1

\* C15: a cancel at the index of the booking just appended gives back the
\* list as it was before that booking, and when the cancel is saved the slot
\* reads back as that list.
C15_BookThenCancel ==
    [][ (lastOp.op = "book" /\ lastOp'.op = "cancel" /\ lastOp'.index = lastOp.index) =>
          /\ bookings' = lastOp.undo[1]
          /\ lastSave' = "ok" => getBookings(storage') = lastOp.undo[1] ]_vars

\* the second of two bookings was cancelled and saved: one booking is left
C15_Witness ==
    /\ lastOp.op = "cancel"
    /\ lastOp.index = 1
    /\ lastSave = "ok"
    /\ Len(bookings.a) = 1
    /\ Persisted = bookings

(***************************************************************************)
(* Properties of the booking modal (SpecApp)                               *)
(***************************************************************************)
\* a step in which the Confirm Booking button of the open modal was pressed
ConfirmStep ==
    /\ bookingHospital # NoHospital
    /\ lastOp' # lastOp
    /\ lastOp'.op \in {"confirm disabled", "confirm threw", "book"}

\* the record a confirmation is to append: the hospital's fields plus the
\* chosen date and the chosen time
ConfirmedRecord ==
    NewBooking(bookingHospital[1], toISODate(modal.selectedDate), modal.selectedTimeSlot)

\* C16: a booking is made only with a date and a time slot selected; a
\* confirm without a slot changes neither the list nor the slot; a confirm
\* with both selected appends exactly one record (the hospital's fields, the
\* chosen date, the chosen time), saves the list and closes the modal
C16_ConfirmBooks ==
    [][ ConfirmStep =>
          IF modal.selectedTimeSlot = null
            THEN bookings' = bookings /\ storage' = storage
            ELSE /\ bookings.t = "arr" /\ bookings'.t = "arr"
                 /\ bookings'.a = Append(bookings.a, ConfirmedRecord)
                 /\ lastSave' = "ok"
                 /\ storage' = SlotWith(JSONstringify(bookings'))
                 /\ bookingHospital' = NoHospital ]_vars

(***************************************************************************)
(* Properties of the search state controller: failures and loading flags   *)
(* (Spec)                                                                  *)
(***************************************************************************)
\* C17: a fetch that exhausts its retries is absorbed by its stage: the call
\* that threw is gone (no thrown call is kept or passed on), the stage's
\* loading flag is false after its catch block, and after a failed hospital
\* search the search results are empty and the hospitals flag is false
C17_FailureAbsorbed ==
    /\ \A c \in BagToSet(calls) : c.phase \in {"fetching", "waiting"}
    /\ lastCatch \in Stages => ~isLoading[lastCatch]
    /\ lastCatch = "hospitals" => searchResults = << >> /\ ~isLoading.hospitals

\* the search for hospitals in Mobile has just failed for good
C17_Witness ==
    /\ lastCatch = "hospitals"
    /\ selectedCity = "Mobile"
    /\ searchResults = << >>
    /\ ~isLoading.hospitals
    /\ calls = NoCalls

(***************************************************************************)
(* Frame of the booking list (SpecApp)                                     *)
(***************************************************************************)
\* C18: the booking slot and the in-memory booking list change only in a
\* step of the book action (the modal's confirm) or of the cancel action;
\* every other step (selecting a state or a city, starting a search, a fetch
\* resolving or failing, a timer, opening or closing the modal, picking a
\* date or a time, navigating) leaves both as they were
C18_OnlyBookAndCancel ==
    [][ (bookings' # bookings \/ storage' # storage) =>
          \/ \E written \in BOOLEAN : BookingModal_handleBook(written)
          \/ \E index \in 0..(MaxBookings - 1), written \in BOOLEAN :
                onCancelBooking(index, written) ]_vars

\* a booking was made and saved, and the user then went to the My Bookings
\* page: the list and the slot still hold that booking
C18_Witness ==
    /\ lastOp.op = "book"
    /\ route = "MyBookings"
    /\ bookingHospital = NoHospital
    /\ bookings.t = "arr"
    /\ Len(bookings.a) = 1
    /\ storage = SlotWith(JSONstringify(bookings))

(***************************************************************************)
(* SpecRoute: routing alone. The document is loaded at one of InitialPaths *)
(* and the user navigates with the header links and with the browser's     *)
(* back and forward buttons.                                               *)
(***************************************************************************)
InitialPaths == {"/", "/my-bookings", "/my-bookings/", "/about"}
Routes == {"Home", "MyBookings"}

InitRoute ==
    /\ calls = NoCalls
    /\ ObsInit
    /\ \E path \in InitialPaths : AppInitAt(path)
    /\ storage = AbsentSlot
    /\ bookings = getBookings(storage)
    /\ lastSave = "none"
    /\ lastOp = NoOp

NextRoute ==
    \/ Mount
    \/ \E r \in Routes : navigate(r)
    \/ \E delta \in {-1, 1} : handlePopState(delta)
    \/ toggleMobileMenu

SpecRoute == InitRoute /\ [][NextRoute]_vars

\* the step puts a new entry on top of the current one
Pushed ==
    /\ history'.at = history.at + 1
    /\ Len(history'.entries) = history'.at
    /\ SubSeq(history'.entries, 1, history.at) = SubSeq(history.entries, 1, history.at)

\* C19: after every step that moves in the history (navigate, back, forward)
\* the route is MyBookings exactly when the current path is /my-bookings and
\* Home otherwise, and the entry navigate pushes is /my-bookings for
\* MyBookings and / for Home
C19_RouteFollowsPath ==
    [][ history' # history =>
          /\ route' = (IF pathname(history') = "/my-bookings" THEN "MyBookings" ELSE "Home")
          /\ Pushed =>
                pathname(history') = (IF route' = "MyBookings" THEN "/my-bookings" ELSE "/") ]_vars

\* loaded at /my-bookings, the user went Home and then back
C19_Witness ==
    /\ history = [entries |-> <<"/my-bookings", "/">>, at |-> 1]
    /\ route = "MyBookings"
    /\ mounted

(***************************************************************************)
(* Loading flags and the fetches in flight (Spec)                          *)
(***************************************************************************)
StageInFlight(stage) == \E c \in BagToSet(calls) : c.stage = stage

\* C20: each loading flag tells whether a fetch of its stage is in flight;
\* in particular the cities flag is true in every state in which a cities
\* fetch has started and has not yet resolved or failed, also when the
\* selected state was changed while an earlier cities fetch was in flight
C20_FlagsTellInFlight ==
    /\ \A stage \in Stages : isLoading[stage] <=> StageInFlight(stage)
    /\ StageInFlight("cities") => isLoading.cities

(***************************************************************************)
(* The result set of a search (Spec)                                       *)
(***************************************************************************)
\* a response record reduced to the five fields, a missing field read as ""
Reduced(h) ==
    [f \in {"Hospital Name", "City", "State", "Hospital Type", "Hospital overall rating"} |->
        IF h[f] = undefined THEN "" ELSE h[f]]

\* the records of data that have a non-empty name, reduced, in the order of data
RECURSIVE NamedReduced(_)
NamedReduced(data) ==
    IF data = << >> THEN << >>
    ELSE LET h == Head(data) IN
         (IF h["Hospital Name"] \in {undefined, ""} THEN << >> ELSE <<Reduced(h)>>)
             \o NamedReduced(Tail(data))

\* C21: in the step in which a hospital search resolves with the records
\* data, the result set becomes exactly the records of data with a non-empty
\* name, in response order, each reduced to the five fields with "" for every
\* missing field; nothing of the earlier result set remains
C21_ResultsReplaced ==
    [][ \A w \in BagToSet(calls) :
          w.stage = "hospitals" =>
            \A data \in DataBodies(w.url.state, w.url.city) :
                Respond(w, HttpResponse(200, TRUE, data))
                    => searchResults' = NamedReduced(data) ]_vars

\* of a response of three records the two named ones are displayed, in
\* response order, the second with "" for its missing type and rating
C21_Witness ==
    /\ Len(searchResults) = 2
    /\ searchResults[1] = [f \in HospitalFields |->
          CASE f = "Hospital Name" -> "Mercy" [] f = "City" -> "Mobile" [] f = "State" -> "Alabama"
            [] f = "Hospital Type" -> "Acute Care" [] OTHER -> "4"]
    /\ searchResults[2] = [f \in HospitalFields |->
          CASE f = "Hospital Name" -> "Mercy" [] f = "City" -> "Mobile" [] f = "State" -> "Alabama"
            [] OTHER -> ""]
    /\ ~isLoading.hospitals

(***************************************************************************)
(* The selected city and the searches issued (Spec)                        *)
(***************************************************************************)
\* the cities the API serves for state s
CitiesOf(s) == UNION { Range(b) : b \in CitiesBodies(s) }

\* the step starts the hospital search c
SearchIssued(c) == c.stage = "hospitals" /\ calls' = calls (+) One(c)

\* C22: a hospital search is issued only with a state and a city selected,
\* for that state and that city, and the city is one of the cities of the
\* selected state; the selected city is always empty or a city of the
\* selected state
C22_CityOfSelectedState ==
    [][ /\ selectedCity' = null \/ selectedCity' \in CitiesOf(selectedState')
        /\ \A c \in BagToSet(calls') :
              SearchIssued(c) =>
                 /\ Truthy(selectedState) /\ Truthy(selectedCity)
                 /\ c.url.state = selectedState /\ c.url.city = selectedCity
                 /\ c.url.city \in CitiesOf(selectedState) ]_vars

\* the hospital searches in flight in the bag cs
SearchesInFlight(cs) == Copies({ c \in BagToSet(cs) : c.stage = "hospitals" }, cs)

\* C23: at most one hospital search is in flight; while a search is in
\* flight the hospitals flag is true, and while the flag is true no step
\* issues a search
C23_OneSearchInFlight ==
    [][ /\ SearchesInFlight(calls') <= 1
        /\ SearchesInFlight(calls') = 1 => isLoading'.hospitals
        /\ isLoading.hospitals => \A c \in BagToSet(calls') : ~SearchIssued(c) ]_vars

\* the first attempt of a search has failed and its timer runs: the user is
\* on the Home page with a state and a city selected, and the flag is set
C23_Witness ==
    /\ route = "Home"
    /\ Truthy(selectedState) /\ Truthy(selectedCity)
    /\ isLoading.hospitals
    /\ \E c \in BagToSet(calls) : c.stage = "hospitals" /\ c.phase = "waiting"

\* C24: while the hospitals loading flag is true the search results are empty
C24_LoadingMeansNoResults ==
    isLoading.hospitals => searchResults = << >>

\* a search is on its second attempt: the flag is set and nothing is displayed
C24_Witness ==
    /\ isLoading.hospitals
    /\ searchResults = << >>
    /\ \E c \in BagToSet(calls) : c.stage = "hospitals" /\ c.phase = "fetching" /\ c.i = 1

(***************************************************************************)
(* fetchWithRetry with an empty budget (SpecRetry)                         *)
(***************************************************************************)
\* C25: a call with retry budget 0 makes no network attempt and returns
\* undefined: it has not thrown, holds no error and no parsed body
C25_BudgetZero ==
    (Called /\ TheCall.retries = 0)
    => /\ netlog = << >>
       /\ TheCall.phase = "returned"
       /\ TheCall.result = Undefined
       /\ TheCall.error = NoError

\* fetchWithRetry(url, {}, 0) was called and has returned
C25_Witness ==
    /\ Called
    /\ TheCall.retries = 0
    /\ TheCall.phase = "returned"
    /\ Attempts = 0

(***************************************************************************)
(* SpecCancel: handleCancelBooking applied to every list of at most        *)
(* MaxBookings bookings, with every index from -1 to MaxBookings.          *)
(***************************************************************************)
BookingsTried ==
    { NewBooking(h, "2026-11-06", t) : h \in BookableHospitals, t \in {"09:00 AM", "02:00 PM"} }

ListsTried == UNION { [1..n -> BookingsTried] : n \in 0..MaxBookings }

IndexesTried == (0 - 1)..MaxBookings

InitCancel ==
    /\ calls = NoCalls
    /\ ObsInit
    /\ AppInit
    /\ \E q \in ListsTried : bookings = JArr(q)
    /\ storage = saveBookings(AbsentSlot, bookings, TRUE)
    /\ lastSave = "none"
    /\ lastOp = NoOp

NextCancel ==
    \E index \in IndexesTried, written \in BOOLEAN : handleCancelBooking(index, written)

SpecCancel == InitCancel /\ [][NextCancel]_vars

UrlsTried ==
    {StatesUrl}
        \cup { CitiesUrl(s) : s \in {"Alabama", "Texas"} }
        \cup { DataUrl(s, c) : s \in {"Alabama", "Texas"}, c \in {"Auburn", "Dallas", "Mobile"} }

LiveBody(u) ==
    IF u.path = "/states" THEN <<[state |-> "Texas"], [state |-> "Alabama"]>>
    ELSE IF u.path = "/cities" THEN CHOOSE b \in CitiesBodies(u.state) : TRUE
    ELSE <<ApiHospital("Mercy", u.city, u.state, "Acute Care", "4")>>

LiveResponses(u) == { TransportFailure, HttpResponse(200, TRUE, LiveBody(u)) }

UrlInFlight(u) == \E c \in BagToSet(calls) : c.url = u

NextLive ==
    \/ Mount
    \/ \E s \in Range(states) : ~UrlInFlight(CitiesUrl(s)) /\ SelectState(s)
    \/ \E c \in Range(cities) : SelectCity(c)
    \/ handleSearch
    \/ \E w \in BagToSet(calls) : \E resp \in LiveResponses(w.url) : Respond(w, resp)
    \/ \E w \in BagToSet(calls) : TimerFires(w)
    \/ Tick

\* the mount effect runs, every pending fetch() settles, every pending
\* setTimeout fires
Fairness ==
    /\ WF_vars(Mount)
    /\ WF_vars(Tick)
    /\ \A u \in UrlsTried :
          /\ WF_vars(\E w \in BagToSet(calls) :
                        w.url = u /\ \E resp \in LiveResponses(u) : Respond(w, resp))
          /\ WF_vars(\E w \in BagToSet(calls) : w.url = u /\ TimerFires(w))

SpecLive == Init /\ [][NextLive]_vars /\ Fairness

\* C27: when every request settles, every fetch that starts ends, every
\* loading flag that is true becomes false again, and a flag is false
\* whenever no fetch of its stage is in flight
C27_StagesEnd ==
    /\ \A u \in UrlsTried : UrlInFlight(u) ~> ~UrlInFlight(u)
    /\ \A stage \in Stages : isLoading[stage] ~> ~isLoading[stage]
    /\ [](\A stage \in Stages : ~StageInFlight(stage) => ~isLoading[stage])

\* a search failed twice and is on its last attempt while the flag is set
C27_Witness ==
    /\ isLoading.hospitals
    /\ \E c \in BagToSet(calls) : c.stage = "hospitals" /\ c.phase = "fetching" /\ c.i = 2

(***************************************************************************)
(* SpecModal: the booking modal over the results of one search, mounted at *)
(* different times of day in different time zones.                         *)
(***************************************************************************)
\* new Date() when the modal mounts, and the browser's time zone, tried:
\* 2026-11-06 12:00 in UTC; 2026-11-07 01:30 in UTC+05:30 (20:00Z of the
\* 6th); 2026-11-06 20:00 in UTC-05:00 (01:00Z of the 7th)
ModalNows ==
    { [tz |-> 0, at |-> 720], [tz |-> 330, at |-> 1200], [tz |-> 0 - 300, at |-> 1500] }

\* the App after the search for Mobile, Alabama has resolved with one named hospital
InitModal ==
    /\ calls = NoCalls
    /\ ObsInit
    /\ states = <<"Alabama", "Texas">>
    /\ cities = <<"Auburn", "Mobile">>
    /\ selectedState = "Alabama"
    /\ selectedCity = "Mobile"
    /\ searchResults = FilteredData(<<ApiHospital(undefined, "Mobile", "Alabama", "Acute Care", "3"),
                                      ApiHospital("Mercy", "Mobile", "Alabama", undefined, undefined),
                                      ApiHospital("", "Mobile", "Alabama", "Childrens", "5")>>)
    /\ isLoading = NoLoading
    /\ history = [entries |-> <<"/">>, at |-> 1]
    /\ route = "Home"
    /\ mobileMenuOpen = FALSE
    /\ mounted = TRUE
    /\ bookingHospital = NoHospital
    /\ modal = NoModal
    /\ storage = AbsentSlot
    /\ bookings = getBookings(storage)
    /\ lastSave = "none"
    /\ lastOp = NoOp

NextModal ==
    \/ \E h \in Range(searchResults), now \in ModalNows : openBookingModal(h, now)
    \/ closeBookingModal
    \/ \E i \in DatesTried : setSelectedDate(i)
    \/ \E t \in SlotsTried : setSelectedTimeSlot(t)
    \/ \E written \in BOOLEAN : BookingModal_handleBook(written)

SpecModal == InitModal /\ [][NextModal]_vars

\* the bookingDate field of a booking record
BookingDateOf(b) == (CHOOSE m \in Range(b.a) : m.s = "bookingDate").a[1].s

\* the local calendar days the modal offers: the current local day and the six after it
DaysOffered ==
    { toLocalDate(DateAt(modal.today, i), modal.tz) : i \in 0..(DaysShown - 1) }

\* C28: the bookingDate of the record a confirmation appends is the calendar
\* date, in the browser's time zone, of the day selected in the modal, which
\* is one of the 7 days starting from the current local day
C28_BookingDateIsSelectedDay ==
    [][ (ConfirmStep /\ lastOp'.op = "book") =>
          /\ BookingDateOf(bookings'.a[Len(bookings'.a)])
                = toLocalDate(modal.selectedDate, modal.tz)
          /\ BookingDateOf(bookings'.a[Len(bookings'.a)]) \in DaysOffered ]_vars


====
